---- MODULE Spec2Model ----
(***************************************************************************)
(* Model of opi.external_methods: Process (process.py), OpiServer and      *)
(* CalcServer (server.py).  One CalcServer instance owns one OpiServer,    *)
(* which owns one Process.  Caller threads invoke the public methods; the  *)
(* operating system (children, sockets, the connection's peer, the clock)  *)
(* is the environment.                                                     *)
(***************************************************************************)
EXTENDS Integers, Sequences, FiniteSets, TLC

VARIABLES
    threads,    \* the caller threads of this behaviour (fixed by Init)
    process,    \* Process.process: None or the Popen handle (its pid)
    child,      \* the OS view of every child this Process has spawned
    host,       \* OpiServer._host_id
    port,       \* OpiServer._port
    calculator, \* CalcServer._calculator
    bound,      \* which listener, if any, holds each endpoint
    thr,        \* per caller thread: position and locals of the running call
    exit_code   \* exit status of the calling process once sys.exit has run

vars == <<threads, process, child, host, port, calculator, bound, thr, exit_code>>

----------------------------------------------------------------------------
(* Bounds of the model *)

\* children spawned within one behaviour
MaxPid == 2

(* Program constants *)

\* process.py:62  self.process.wait(timeout=30)
StopTimeoutUnits == 30
\* server.py:83   time.sleep(5)
SettleDelay == 5
\* server.py:66   sys.exit(101)
ExitPortInUse == 101
\* server.py:17   port: int = 9000
DefaultPort == 9000

\* Python's None as a handle (process.py:14)
None == 0
\* the calling process has not exited
NotExited == -1
\* owner of an endpoint nobody listens on / of a listener foreign to us
Free == 0
Ext == -1
\* owner of an endpoint held by the throwaway socket of server_port_in_use
Probe == -2

\* the thread whose SystemExit ends the calling process
MainThread == 1
Pids == 1..MaxPid
\* the (host, port) pairs a caller configures and listeners bind
Endpoints == {<<"127.0.0.1", DefaultPort>>, <<"10.0.0.7", DefaultPort + 1>>}

GoodExe == "python"
BadExe == "missing-exe"
Exes == {GoodExe, BadExe}
ServerPath == "server.py"
\* commands a caller hands to Process.start directly
BadArg == "job\\0.py"
DirectCmds == {<<GoodExe, "job.py">>, <<BadExe, "job.py">>, <<GoodExe, BadArg>>}

\* payloads: None (the default), a picklable calculator, an unpicklable object
Calculators == {"None", "calc", "lambda"}
Unpicklable == {"lambda"}
Responses == {"ok", "failed"}

----------------------------------------------------------------------------
(* Python values and library behaviour the code relies on *)

\* truth value of a Python object as `if` and `not` see it
Truthy(v) == v = "True"

\* Popen.poll(): None while the child runs, its return code afterwards
Poll(p) == IF child[p].st = "running" THEN "None" ELSE "returncode"

\* a and b  (process.py:78): the first operand if it is falsy, else the second
PyAnd(a, b) == IF a = "None" THEN a ELSE b

\* f"{self._host_id}:{self._port}"  (server.py:75)
HostPort(h, p) == h \o ":" \o ToString(p)

\* the endpoint a worker launched with `-b host:port` listens on
ParseBind(arg) == CHOOSE e \in Endpoints : HostPort(e[1], e[2]) = arg

IsServerCmd(c) == Len(c) = 4 /\ c[3] = "-b"

\* pickle.dumps / pickle.loads as Connection.send / Connection.recv use them
Dumps(obj) == <<"PICKLE", obj>>
Garbled == <<"GARBAGE">>
CanLoad(bytes) == Len(bytes) = 2 /\ bytes[1] = "PICKLE"
Loads(bytes) == bytes[2]

\* subprocess.Popen(cmd): what launching cmd can do
PopenOutcomes(c) ==
    IF c[1] = BadExe THEN {"FileNotFoundError"}
    ELSE IF c[2] = BadArg THEN {"ValueError"}
    ELSE {"ok", "OSError"}

----------------------------------------------------------------------------
(* Process.process_is_running  (process.py:69-78) *)

\* faulty variant: trusts the stored handle instead of probing the child
ProcessIsRunning_Cached == IF process = None THEN "None" ELSE "True"

ProcessIsRunning ==
    PyAnd(IF process = None THEN "None" ELSE "Popen",
          IF process = None THEN "None"
          ELSE IF Poll(process) = "None" THEN "True" ELSE "False")

(* OpiServer.server_port_in_use  (server.py:91-105) *)

\* s.bind((host, port)) (server.py:102): raises OSError when the address is held
BindFails(b, e) == b[e] # Free
\* the endpoints once the probe socket is bound, where bind succeeded
BindProbe(b, e) == IF BindFails(b, e) THEN b ELSE [b EXCEPT ![e] = Probe]

\* faulty variant: the probe socket is never closed
CloseProbe_Leak(b) == b

\* the with statement's __exit__ (server.py:100): the probe socket is closed
CloseProbe(b) == [e \in DOMAIN b |-> IF b[e] = Probe THEN Free ELSE b[e]]

\* the value returned: True from the except clause, False after the with block
ServerPortInUse == BindFails(bound, <<host, port>>)
\* the endpoints when server_port_in_use has returned
AfterProbe == CloseProbe(BindProbe(bound, <<host, port>>))

----------------------------------------------------------------------------
\* a child that is not running: never spawned ("unborn"), or gone ("exited", "killed")
Gone(how) == [st |-> how, term |-> FALSE, kill |-> FALSE, cmd |-> <<>>]
NoChild == Gone("unborn")

IdleThread ==
    [pc |-> "idle", op |-> "", cmd |-> <<>>, timer |-> 0, out |-> <<>>,
     result |-> "", target |-> None, arg |-> <<>>,
     attempts |-> 0, sends |-> 0, recvs |-> 0,
     addr |-> <<"127.0.0.1", DefaultPort>>, conn |-> "none", peer |-> Free,
     peerOpen |-> FALSE, req |-> <<>>, reply |-> <<>>, sent |-> "", resp |-> ""]

InitCommon ==
    /\ process = None
    /\ child = [p \in Pids |-> NoChild]
    /\ host = "127.0.0.1"
    /\ port = DefaultPort
    /\ calculator \in Calculators
    /\ bound \in [Endpoints -> {Free, Ext}]
    /\ exit_code = NotExited

Init ==
    /\ threads = {MainThread}
    /\ thr = [t \in threads |-> IdleThread]
    /\ InitCommon

----------------------------------------------------------------------------
(* helpers *)

Alive(p) == child[p].st = "running"

Unborn == {p \in Pids : child[p].st = "unborn"}
NextPid == CHOOSE p \in Unborn : \A q \in Unborn : p <= q

\* the sockets of a dead process are closed by the OS
Release(p) == [e \in Endpoints |-> IF bound[e] = p THEN Free ELSE bound[e]]

Say(r, msg) == [r EXCEPT !.out = Append(@, msg)]

\* a call begins: fresh locals and output, no result yet
Enter(t, name) == [IdleThread EXCEPT !.op = name]

\* the call returns (Python's None) or raises
Return(r) == [r EXCEPT !.pc = "idle", !.result = "None"]
Raise(r, exc) == [r EXCEPT !.pc = "idle", !.result = exc]

----------------------------------------------------------------------------
(* Process.start  (process.py:16-51) *)

\* a caller invokes Process.start(cmd)
Start(t, c) ==
    /\ thr[t].pc = "idle"
    /\ thr' = [thr EXCEPT ![t] = [Enter(t, "start") EXCEPT !.pc = "start_check", !.cmd = c]]
    /\ UNCHANGED <<threads, process, child, host, port, calculator, bound, exit_code>>

\* Process.start is over: back in start_server (server.py:78, 83) or at the caller
ReturnFromStart(r) ==
    IF r.op = "start_server"
    THEN [Say(r, "Server started with PID") EXCEPT !.pc = "ss_settle", !.timer = 0]
    ELSE Return(r)

\* faulty variant: launches without looking at the liveness check
StartCheck_NoGuard(t) ==
    /\ thr[t].pc = "start_check"
    /\ thr' = [thr EXCEPT ![t] = [thr[t] EXCEPT !.pc = "start_popen"]]
    /\ UNCHANGED <<threads, process, child, host, port, calculator, bound, exit_code>>

\* process.py:34 and 50-51: the liveness check that guards the launch
StartCheck(t) ==
    /\ thr[t].pc = "start_check"
    /\ thr' = [thr EXCEPT ![t] =
                 IF ~Truthy(ProcessIsRunning)
                 THEN [thr[t] EXCEPT !.pc = "start_popen"]
                 ELSE ReturnFromStart(Say(thr[t], "Process is already running."))]
    /\ UNCHANGED <<threads, process, child, host, port, calculator, bound, exit_code>>

\* the message of each except clause (process.py:42-49)
SpawnErrorMsg(o) ==
    CASE o = "FileNotFoundError" -> "Command not found:"
      [] o = "ValueError" -> "Invalid arguments:"
      [] o = "SubprocessError" -> "Subprocess error:"
      [] o = "OSError" -> "OS error:"

SpawnErrorMsgs == {SpawnErrorMsg(o) : o \in {"FileNotFoundError", "ValueError", "SubprocessError", "OSError"}}

\* process.py:36-49: Popen, the handle assigned on success, every failure caught
\* (once MaxPid children exist the OS refuses further ones: OSError)
StartPopen(t) ==
    /\ thr[t].pc = "start_popen"
    /\ \E o \in PopenOutcomes(thr[t].cmd) :
         IF o = "ok"
         THEN /\ Unborn # {}
              /\ child' = [child EXCEPT ![NextPid] =
                             [st |-> "running", term |-> FALSE, kill |-> FALSE, cmd |-> thr[t].cmd]]
              /\ process' = NextPid
              /\ thr' = [thr EXCEPT ![t] = ReturnFromStart(Say(thr[t], "Process started with PID"))]
         ELSE /\ thr' = [thr EXCEPT ![t] = ReturnFromStart(Say(thr[t], SpawnErrorMsg(o)))]
              /\ UNCHANGED <<process, child>>
    /\ UNCHANGED <<threads, host, port, calculator, bound, exit_code>>

----------------------------------------------------------------------------
(* Process.stop_process  (process.py:53-67) *)

\* faulty variant: takes the stop path whenever a handle is stored
StopBegin_HandleOnly(t, name) ==
    /\ thr[t].pc = "idle"
    /\ IF process # None
       THEN /\ child' = [child EXCEPT ![process].term = TRUE]
            /\ thr' = [thr EXCEPT ![t] =
                         [Say(Enter(t, name), "Stopping process with PID")
                            EXCEPT !.pc = "stop_wait", !.target = process]]
            /\ UNCHANGED process
       ELSE /\ process' = None
            /\ thr' = [thr EXCEPT ![t] = Return(Enter(t, name))]
            /\ UNCHANGED child
    /\ UNCHANGED <<threads, host, port, calculator, bound, exit_code>>

\* process.py:57-60 (a live child: announce, terminate(), enter wait) or 67
StopBegin(t, name) ==
    /\ thr[t].pc = "idle"
    /\ IF Truthy(ProcessIsRunning)
       THEN /\ child' = [child EXCEPT ![process].term = TRUE]
            /\ thr' = [thr EXCEPT ![t] =
                         [Say(Enter(t, name), "Stopping process with PID")
                            EXCEPT !.pc = "stop_wait", !.target = process]]
            /\ UNCHANGED process
       ELSE /\ process' = None
            /\ thr' = [thr EXCEPT ![t] = Return(Enter(t, name))]
            /\ UNCHANGED child
    /\ UNCHANGED <<threads, host, port, calculator, bound, exit_code>>

StopProcess(t) == StopBegin(t, "stop_process")

\* process.py:62-63, 67: wait() returns because the child has exited
StopWaitExited(t) ==
    /\ thr[t].pc = "stop_wait"
    /\ ~Alive(thr[t].target)
    /\ process' = None
    /\ thr' = [thr EXCEPT ![t] = Return(thr[t])]
    /\ UNCHANGED <<threads, child, host, port, calculator, bound, exit_code>>

\* faulty variant: the final `self.process = None` (process.py:67) is missing
StopTimeout_KeepsHandle(t) ==
    /\ thr[t].pc = "stop_wait"
    /\ thr[t].timer = StopTimeoutUnits
    /\ Alive(thr[t].target)
    /\ process # None
    /\ child' = [child EXCEPT ![process] = IF Alive(process) THEN Gone("killed") ELSE @]
    /\ bound' = Release(process)
    /\ thr' = [thr EXCEPT ![t] = Return(thr[t])]
    /\ UNCHANGED <<threads, process, host, port, calculator, exit_code>>

\* faulty variant: the timeout is swallowed without kill() (process.py:66 missing)
StopTimeout_NoKill(t) ==
    /\ thr[t].pc = "stop_wait"
    /\ thr[t].timer = StopTimeoutUnits
    /\ Alive(thr[t].target)
    /\ process' = None
    /\ thr' = [thr EXCEPT ![t] = Return(thr[t])]
    /\ UNCHANGED <<threads, child, bound, host, port, calculator, exit_code>>

\* faulty variant: kill() without waiting for the timeout to expire
StopTimeout_Early(t) ==
    /\ thr[t].pc = "stop_wait"
    /\ Alive(thr[t].target)
    /\ process # None
    /\ child' = [child EXCEPT ![process] = IF Alive(process) THEN Gone("killed") ELSE @]
    /\ bound' = Release(process)
    /\ process' = None
    /\ thr' = [thr EXCEPT ![t] = Return(thr[t])]
    /\ UNCHANGED <<threads, host, port, calculator, exit_code>>

\* process.py:64-67: TimeoutExpired, kill() on the handle as read then, handle cleared.
\* SIGKILL cannot be caught or ignored: the child is gone once kill() is sent;
\* kill() is not followed by wait(), the dead child is left unreaped.
StopTimeout(t) ==
    /\ thr[t].pc = "stop_wait"
    /\ thr[t].timer = StopTimeoutUnits
    /\ Alive(thr[t].target)
    /\ IF process = None
       THEN /\ thr' = [thr EXCEPT ![t] = Raise(thr[t], "AttributeError")]
            /\ UNCHANGED <<process, child, bound>>
       ELSE /\ child' = [child EXCEPT ![process] =
                           IF Alive(process) THEN Gone("killed") ELSE @]
            /\ bound' = Release(process)
            /\ process' = None
            /\ thr' = [thr EXCEPT ![t] = Return(thr[t])]
    /\ UNCHANGED <<threads, host, port, calculator, exit_code>>

\* a caller invokes process_is_running()
ProcessIsRunningCall(t) ==
    /\ thr[t].pc = "idle"
    /\ thr' = [thr EXCEPT ![t] = [Enter(t, "process_is_running") EXCEPT !.result = ProcessIsRunning]]
    /\ UNCHANGED <<threads, process, child, host, port, calculator, bound, exit_code>>

----------------------------------------------------------------------------
(* the environment: the clock, the children, foreign listeners *)

Blocked(t) ==
    \/ thr[t].pc = "stop_wait" /\ thr[t].timer < StopTimeoutUnits /\ Alive(thr[t].target)
    \/ thr[t].pc = "ss_settle" /\ thr[t].timer < SettleDelay

\* one time unit passes for every thread blocked in wait(timeout=30) or sleep(5)
Tick ==
    /\ \E t \in threads : Blocked(t)
    /\ thr' = [t \in threads |-> IF Blocked(t) THEN [thr[t] EXCEPT !.timer = @ + 1] ELSE thr[t]]
    /\ UNCHANGED <<threads, process, child, host, port, calculator, bound, exit_code>>

\* a child exits: on its own, or because it honours the SIGTERM it was sent
ChildExit(p) ==
    /\ Alive(p)
    /\ child' = [child EXCEPT ![p] = Gone("exited")]
    /\ bound' = Release(p)
    /\ UNCHANGED <<threads, process, host, port, calculator, thr, exit_code>>

\* a worker launched with `-b host:port` opens its listener there
WorkerBind(p) ==
    /\ Alive(p)
    /\ IsServerCmd(child[p].cmd)
    /\ \A e \in Endpoints : bound[e] # p
    /\ bound[ParseBind(child[p].cmd[4])] = Free
    /\ bound' = [bound EXCEPT ![ParseBind(child[p].cmd[4])] = p]
    /\ UNCHANGED <<threads, process, child, host, port, calculator, thr, exit_code>>

\* some other program binds or releases an endpoint
ExtBind(e) ==
    /\ bound[e] = Free
    /\ bound' = [bound EXCEPT ![e] = Ext]
    /\ UNCHANGED <<threads, process, child, host, port, calculator, thr, exit_code>>

ExtRelease(e) ==
    /\ bound[e] = Ext
    /\ bound' = [bound EXCEPT ![e] = Free]
    /\ UNCHANGED <<threads, process, child, host, port, calculator, thr, exit_code>>

----------------------------------------------------------------------------
(* OpiServer  (server.py:12-105) *)

\* faulty variant: reports the taken endpoint but goes on to launch
StartServer_NoExit(t, exe) ==
    /\ thr[t].pc = "idle"
    /\ thr' = [thr EXCEPT ![t] =
                 [Enter(t, "start_server") EXCEPT !.pc = "ss_check", !.cmd = <<exe>>, !.arg = <<exe>>]]
    /\ UNCHANGED <<threads, process, child, host, port, calculator, bound, exit_code>>

\* faulty variant: the already-running check comes before the endpoint probe
StartServer_RunningFirst(t, exe) ==
    /\ thr[t].pc = "idle"
    /\ IF Truthy(ProcessIsRunning)
       THEN /\ thr' = [thr EXCEPT ![t] =
                         [Say(Enter(t, "start_server"), "Server is already running.")
                            EXCEPT !.pc = "ss_settle", !.timer = 0, !.arg = <<exe>>]]
            /\ UNCHANGED exit_code
       ELSE IF ServerPortInUse
       THEN /\ thr' = [thr EXCEPT ![t] =
                         [Say(Say(Enter(t, "start_server"), "Couldn't setup server"),
                              "Please check whether all previous server were terminated.")
                            EXCEPT !.pc = "exited", !.result = "SystemExit"]]
            /\ exit_code' = IF t = MainThread THEN ExitPortInUse ELSE exit_code
       ELSE /\ thr' = [thr EXCEPT ![t] =
                         [Enter(t, "start_server") EXCEPT !.pc = "ss_check", !.cmd = <<exe>>, !.arg = <<exe>>]]
            /\ UNCHANGED exit_code
    /\ bound' = AfterProbe
    /\ UNCHANGED <<threads, process, child, host, port, calculator>>

\* server.py:60-67: the endpoint probe; sys.exit(101) when the endpoint is taken
StartServer(t, exe) ==
    /\ thr[t].pc = "idle"
    /\ IF ServerPortInUse
       THEN /\ thr' = [thr EXCEPT ![t] =
                         [Say(Say(Enter(t, "start_server"), "Couldn't setup server"),
                              "Please check whether all previous server were terminated.")
                            EXCEPT !.pc = "exited", !.result = "SystemExit"]]
            /\ exit_code' = IF t = MainThread THEN ExitPortInUse ELSE exit_code
       ELSE /\ thr' = [thr EXCEPT ![t] =
                         [Enter(t, "start_server") EXCEPT !.pc = "ss_check", !.cmd = <<exe>>, !.arg = <<exe>>]]
            /\ UNCHANGED exit_code
    /\ bound' = AfterProbe
    /\ UNCHANGED <<threads, process, child, host, port, calculator>>

\* faulty variant: the command names the default endpoint, not the current one
StartServerCheck_DefaultEndpoint(t) ==
    /\ thr[t].pc = "ss_check"
    /\ thr' = [thr EXCEPT ![t] =
                 IF ~Truthy(ProcessIsRunning)
                 THEN [thr[t] EXCEPT !.pc = "start_check",
                                     !.cmd = <<thr[t].cmd[1], ServerPath, "-b",
                                               HostPort("127.0.0.1", DefaultPort)>>]
                 ELSE [Say(thr[t], "Server is already running.")
                         EXCEPT !.pc = "ss_settle", !.timer = 0]]
    /\ UNCHANGED <<threads, process, child, host, port, calculator, bound, exit_code>>

\* server.py:70-80: build the command and call Process.start, unless already running
StartServerCheck(t) ==
    /\ thr[t].pc = "ss_check"
    /\ thr' = [thr EXCEPT ![t] =
                 IF ~Truthy(ProcessIsRunning)
                 THEN [thr[t] EXCEPT !.pc = "start_check",
                                     !.cmd = <<thr[t].cmd[1], ServerPath, "-b", HostPort(host, port)>>]
                 ELSE [Say(thr[t], "Server is already running.")
                         EXCEPT !.pc = "ss_settle", !.timer = 0]]
    /\ UNCHANGED <<threads, process, child, host, port, calculator, bound, exit_code>>

\* faulty variant: the endpoint is probed again after the sleep
StartServerSettle_Recheck(t) ==
    /\ thr[t].pc = "ss_settle"
    /\ thr[t].timer = SettleDelay
    /\ IF bound[<<host, port>>] \notin {Free, process}
       THEN /\ thr' = [thr EXCEPT ![t] =
                         [Say(thr[t], "Couldn't setup server")
                            EXCEPT !.pc = "exited", !.result = "SystemExit"]]
            /\ exit_code' = IF t = MainThread THEN ExitPortInUse ELSE exit_code
       ELSE /\ thr' = [thr EXCEPT ![t] = Return(thr[t])]
            /\ UNCHANGED exit_code
    /\ UNCHANGED <<threads, process, child, host, port, calculator, bound>>

\* server.py:83: time.sleep(5) is over, start_server returns
StartServerSettle(t) ==
    /\ thr[t].pc = "ss_settle"
    /\ thr[t].timer = SettleDelay
    /\ thr' = [thr EXCEPT ![t] = Return(thr[t])]
    /\ UNCHANGED <<threads, process, child, host, port, calculator, bound, exit_code>>

\* a caller invokes server_port_in_use()  (server.py:91-105)
ServerPortInUseCall(t) ==
    /\ thr[t].pc = "idle"
    /\ thr' = [thr EXCEPT ![t] =
                 [Enter(t, "server_port_in_use")
                    EXCEPT !.result = IF ServerPortInUse THEN "True" ELSE "False"]]
    /\ bound' = AfterProbe
    /\ UNCHANGED <<threads, process, child, host, port, calculator, exit_code>>

\* server.py:85-89 (and CalcServer.kill_server, 184-188): delegates to stop_process
KillServer(t) == StopBegin(t, "kill_server")

\* server.py:36-48: OpiServer.set_id_and_port assigns unconditionally
OpiSetIdAndPort(t, h, p) ==
    /\ thr[t].pc = "idle"
    /\ host' = h
    /\ port' = p
    /\ thr' = [thr EXCEPT ![t] = Return(Enter(t, "OpiServer.set_id_and_port"))]
    /\ UNCHANGED <<threads, process, child, calculator, bound, exit_code>>

----------------------------------------------------------------------------
(* CalcServer  (server.py:108-188) *)

\* faulty variant: the guard probes the new endpoint instead of the current one
CalcSetIdAndPort_ChecksNew(t, h, p) ==
    /\ thr[t].pc = "idle"
    /\ IF ~BindFails(bound, <<h, p>>)
       THEN /\ host' = h
            /\ port' = p
            /\ thr' = [thr EXCEPT ![t] =
                         Return(Say([Enter(t, "set_id_and_port") EXCEPT !.arg = <<h, p>>],
                                    "ID and port successfully set up."))]
       ELSE /\ thr' = [thr EXCEPT ![t] =
                         Return(Say([Enter(t, "set_id_and_port") EXCEPT !.arg = <<h, p>>],
                                    "ID and port could not be set up."))]
            /\ UNCHANGED <<host, port>>
    /\ UNCHANGED <<threads, process, child, calculator, bound, exit_code>>

\* server.py:145-160: change the endpoint unless the current one is bound
CalcSetIdAndPort(t, h, p) ==
    /\ thr[t].pc = "idle"
    /\ IF ~ServerPortInUse
       THEN /\ host' = h
            /\ port' = p
            /\ thr' = [thr EXCEPT ![t] =
                         Return(Say([Enter(t, "set_id_and_port") EXCEPT !.arg = <<h, p>>],
                                    "ID and port successfully set up."))]
       ELSE /\ thr' = [thr EXCEPT ![t] =
                         Return(Say([Enter(t, "set_id_and_port") EXCEPT !.arg = <<h, p>>],
                                    "ID and port could not be set up."))]
            /\ UNCHANGED <<host, port>>
    /\ bound' = AfterProbe
    /\ UNCHANGED <<threads, process, child, calculator, exit_code>>

\* server.py:141-143: the calculator setter
SetCalculator(t, c) ==
    /\ thr[t].pc = "idle"
    /\ calculator' = c
    /\ thr' = [thr EXCEPT ![t] = Return(Enter(t, "calculator"))]
    /\ UNCHANGED <<threads, process, child, host, port, bound, exit_code>>

\* the connection's peer is gone: it closed its end, or the worker died
PeerGone(t) ==
    \/ ~thr[t].peerOpen
    \/ thr[t].peer \in Pids /\ ~Alive(thr[t].peer)

\* the with statement's __exit__ (server.py:168): the connection is closed
Close(r) == [r EXCEPT !.conn = "closed", !.peer = Free, !.peerOpen = FALSE, !.req = <<>>, !.reply = <<>>]

\* faulty variant: a refused connection is swallowed, the call returns normally
LoadCalculator_Swallow(t) ==
    /\ thr[t].pc = "idle"
    /\ thr' = [thr EXCEPT ![t] =
                 IF bound[<<host, port>>] = Free
                 THEN Return([Enter(t, "load_calculator")
                               EXCEPT !.addr = <<host, port>>, !.attempts = 1])
                 ELSE [Enter(t, "load_calculator")
                         EXCEPT !.addr = <<host, port>>, !.attempts = 1, !.conn = "open",
                                !.peer = bound[<<host, port>>], !.peerOpen = TRUE,
                                !.pc = "lc_send"]]
    /\ UNCHANGED <<threads, process, child, host, port, calculator, bound, exit_code>>

\* faulty variant: waits for the reply without having sent the envelope
LoadCalculator_RecvFirst(t) ==
    /\ thr[t].pc = "idle"
    /\ thr' = [thr EXCEPT ![t] =
                 IF bound[<<host, port>>] = Free
                 THEN Raise([Enter(t, "load_calculator")
                               EXCEPT !.addr = <<host, port>>, !.attempts = 1],
                            "ConnectionRefusedError")
                 ELSE [Enter(t, "load_calculator")
                         EXCEPT !.addr = <<host, port>>, !.attempts = 1, !.conn = "open",
                                !.peer = bound[<<host, port>>], !.peerOpen = TRUE,
                                !.pc = "lc_recv"]]
    /\ UNCHANGED <<threads, process, child, host, port, calculator, bound, exit_code>>

\* server.py:167-168: read the address, Client(address, authkey) connects;
\* with no listener at the address nothing is opened and the error propagates
LoadCalculator(t) ==
    /\ thr[t].pc = "idle"
    /\ thr' = [thr EXCEPT ![t] =
                 IF bound[<<host, port>>] = Free
                 THEN Raise([Enter(t, "load_calculator")
                               EXCEPT !.addr = <<host, port>>, !.attempts = 1],
                            "ConnectionRefusedError")
                 ELSE [Enter(t, "load_calculator")
                         EXCEPT !.addr = <<host, port>>, !.attempts = 1, !.conn = "open",
                                !.peer = bound[<<host, port>>], !.peerOpen = TRUE,
                                !.pc = "lc_send"]]
    /\ UNCHANGED <<threads, process, child, host, port, calculator, bound, exit_code>>

\* what conn.send can do: pickling fails, the pipe is broken, or the bytes go out
SendOutcomes(t) ==
    IF calculator \in Unpicklable THEN {"PicklingError"}
    ELSE {"ok"} \cup (IF PeerGone(t) THEN {"BrokenPipeError"} ELSE {})

\* server.py:169: conn.send(envelope); an exception leaves through __exit__
LcSend(t) ==
    /\ thr[t].pc = "lc_send"
    /\ \E o \in SendOutcomes(t) :
         thr' = [thr EXCEPT ![t] =
                   IF o = "ok"
                   THEN [thr[t] EXCEPT !.pc = "lc_recv", !.sends = @ + 1,
                            !.req = Dumps([type |-> "setup_calculator", calculator |-> calculator])]
                   ELSE Raise(Close(thr[t]), o)]
    /\ UNCHANGED <<threads, process, child, host, port, calculator, bound, exit_code>>

\* faulty variant: no with block, the connection is closed on the success path only
LcRecv_LeakOnError(t) ==
    /\ thr[t].pc = "lc_recv"
    /\ thr[t].reply # <<>> \/ PeerGone(t)
    /\ thr' = [thr EXCEPT ![t] =
                 IF thr[t].reply # <<>>
                 THEN IF CanLoad(thr[t].reply)
                      THEN Return(Close([Say(thr[t], "Server setup response:")
                                           EXCEPT !.resp = Loads(thr[t].reply)]))
                      ELSE Raise(thr[t], "UnpicklingError")
                 ELSE Raise(thr[t], "EOFError")]
    /\ UNCHANGED <<threads, process, child, host, port, calculator, bound, exit_code>>

\* faulty variant: reports a fixed acknowledgment instead of the reply received
LcRecv_FixedResponse(t) ==
    /\ thr[t].pc = "lc_recv"
    /\ thr[t].reply # <<>> \/ PeerGone(t)
    /\ thr' = [thr EXCEPT ![t] =
                 IF thr[t].reply # <<>>
                 THEN IF CanLoad(thr[t].reply)
                      THEN Return(Close([Say(thr[t], "Server setup response:")
                                           EXCEPT !.resp = "ok"]))
                      ELSE Raise(Close(thr[t]), "UnpicklingError")
                 ELSE Raise(Close(thr[t]), "EOFError")]
    /\ UNCHANGED <<threads, process, child, host, port, calculator, bound, exit_code>>

\* server.py:170-171: conn.recv() unblocks on a reply or on the peer's close;
\* the response is printed, the with block exits, the method returns None
LcRecv(t) ==
    /\ thr[t].pc = "lc_recv"
    /\ thr[t].reply # <<>> \/ PeerGone(t)
    /\ thr' = [thr EXCEPT ![t] =
                 LET r == [thr[t] EXCEPT !.recvs = @ + 1] IN
                 IF r.reply # <<>>
                 THEN IF CanLoad(r.reply)
                      THEN Return(Close([Say(r, "Server setup response:")
                                           EXCEPT !.resp = Loads(r.reply)]))
                      ELSE Raise(Close(r), "UnpicklingError")
                 ELSE Raise(Close(r), "EOFError")]
    /\ UNCHANGED <<threads, process, child, host, port, calculator, bound, exit_code>>

\* the peer answers the request with a response object, or with garbage
PeerReply(t, r) ==
    /\ thr[t].conn = "open"
    /\ thr[t].req # <<>>
    /\ thr[t].reply = <<>>
    /\ ~PeerGone(t)
    /\ \E bytes \in {Dumps(r), Garbled} :
         thr' = [thr EXCEPT ![t] = [thr[t] EXCEPT !.reply = bytes, !.sent = r]]
    /\ UNCHANGED <<threads, process, child, host, port, calculator, bound, exit_code>>

\* the peer closes its end of the connection
PeerClose(t) ==
    /\ thr[t].conn = "open"
    /\ thr[t].peerOpen
    /\ thr' = [thr EXCEPT ![t] = [thr[t] EXCEPT !.peerOpen = FALSE]]
    /\ UNCHANGED <<threads, process, child, host, port, calculator, bound, exit_code>>

----------------------------------------------------------------------------
Next ==
    \/ \E t \in threads : \E c \in DirectCmds : Start(t, c)
    \/ \E t \in threads : StartCheck(t)
    \/ \E t \in threads : StartPopen(t)
    \/ \E t \in threads : StopProcess(t)
    \/ \E t \in threads : StopWaitExited(t)
    \/ \E t \in threads : StopTimeout(t)
    \/ \E t \in threads : ProcessIsRunningCall(t)
    \/ \E t \in threads : \E exe \in Exes : StartServer(t, exe)
    \/ \E t \in threads : StartServerCheck(t)
    \/ \E t \in threads : StartServerSettle(t)
    \/ \E t \in threads : ServerPortInUseCall(t)
    \/ \E t \in threads : KillServer(t)
    \/ \E t \in threads : \E e \in Endpoints : OpiSetIdAndPort(t, e[1], e[2])
    \/ \E t \in threads : \E e \in Endpoints : CalcSetIdAndPort(t, e[1], e[2])
    \/ \E t \in threads : \E c \in Calculators : SetCalculator(t, c)
    \/ \E t \in threads : LoadCalculator(t)
    \/ \E t \in threads : LcSend(t)
    \/ \E t \in threads : LcRecv(t)
    \/ \E t \in threads : \E r \in Responses : PeerReply(t, r)
    \/ \E t \in threads : PeerClose(t)
    \/ Tick
    \/ \E p \in Pids : ChildExit(p)
    \/ \E p \in Pids : WorkerBind(p)
    \/ \E e \in Endpoints : ExtBind(e)
    \/ \E e \in Endpoints : ExtRelease(e)

Spec == Init /\ [][Next]_vars

\* time passes, and a thread whose wait() can return does return
FairSpec ==
    /\ Spec
    /\ WF_vars(Tick)
    /\ WF_vars(StopWaitExited(MainThread) \/ StopTimeout(MainThread))

\* two threads call Process.start on the same instance, with no lock between them
ConcThreads == {MainThread, MainThread + 1}

ConcInit ==
    /\ threads = ConcThreads
    /\ thr = [t \in threads |-> IdleThread]
    /\ InitCommon

ConcNext ==
    \/ \E t \in threads : \E c \in DirectCmds : Start(t, c)
    \/ \E t \in threads : StartCheck(t)
    \/ \E t \in threads : StartPopen(t)
    \/ \E p \in Pids : ChildExit(p)

ConcSpec == ConcInit /\ [][ConcNext]_vars

----------------------------------------------------------------------------
(* Properties *)

\* thread t has just come back from a call of method `name`
Returned(t, name) == thr[t].pc = "idle" /\ thr[t].op = name /\ thr[t].result = "None"

Stops == {"stop_process", "kill_server"}

HandleAlive == process # None /\ Alive(process)

\* C1: immediately after stop_process returns, the handle is absent and
\* process_is_running() is false, whatever calls and child behaviour came before.
C1_StopClearsHandle ==
    \A t \in threads :
        (\E n \in Stops : Returned(t, n)) =>
            /\ process = None
            /\ ~Truthy(ProcessIsRunning)

\* a stop that went through terminate, the full wait and the kill has returned
C1_Witness ==
    \E t \in threads :
        /\ Returned(t, "stop_process")
        /\ thr[t].out = <<"Stopping process with PID">>
        /\ thr[t].timer = StopTimeoutUnits
        /\ \E p \in Pids : child[p].st = "killed"

\* C2: at most one child of this Process is alive at any time, and a start
\* issued while the child is alive launches nothing, leaves the handle as it
\* is and only reports "already running".
C2_AtMostOneChild ==
    /\ [](Cardinality({p \in Pids : Alive(p)}) <= 1)
    /\ [][\A t \in threads :
            (thr[t].pc = "start_check" /\ thr'[t] # thr[t] /\ HandleAlive) =>
                /\ thr'[t].pc # "start_popen"
                /\ thr'[t].out = Append(thr[t].out, "Process is already running.")
                /\ process' = process
                /\ child' = child]_vars

\* start has returned "already running" and the one child is still alive
C2_Witness ==
    \E t \in threads :
        /\ Returned(t, "start")
        /\ thr[t].out = <<"Process is already running.">>
        /\ HandleAlive
        /\ \E p \in Pids : child[p].st = "exited"

\* the step that enters start_server
EntersStartServer(t) == thr[t].pc = "idle" /\ thr'[t].pc \in {"exited", "ss_check"}

\* C3: start_server on an endpoint that is already bound ends the calling
\* process with status 101; Process.start is not reached, no child is
\* spawned and the handle is unchanged.
C3_PortInUseExits101 ==
    [][\A t \in threads :
         /\ (EntersStartServer(t) /\ bound[<<host, port>>] # Free) =>
                /\ thr'[t].pc = "exited"
                /\ exit_code' = ExitPortInUse
                /\ process' = process
                /\ child' = child
         /\ thr[t].pc = "exited" =>
                /\ thr'[t] = thr[t]
                /\ process' = process
                /\ Unborn' = Unborn]_vars

\* the caller was ended with 101 because a foreign listener held the endpoint
C3_Witness ==
    \E t \in threads :
        /\ thr[t].pc = "exited"
        /\ thr[t].op = "start_server"
        /\ exit_code = ExitPortInUse
        /\ bound[<<host, port>>] = Ext

FailedLaunch(t) ==
    /\ Returned(t, "start")
    /\ thr[t].out # <<>>
    /\ thr[t].out[Len(thr[t].out)] \in SpawnErrorMsgs

\* C5: after a launch that failed, start has returned normally and no child
\* handle is retained, whatever the handle was before the call.
C5_NoHandleAfterFailedLaunch ==
    \A t \in threads : FailedLaunch(t) => process = None

\* C6: stop_process with no live child (no handle, or a handle to a child that
\* has exited) returns at once without raising: no signal is sent, nothing is
\* waited for, and the handle is absent afterwards.
C6_StopWithoutLiveChildIsNoOp ==
    [][\A t \in threads :
         (/\ thr[t].pc = "idle"
          /\ thr'[t].op \in Stops
          /\ thr'[t] # thr[t]
          /\ ~HandleAlive) =>
            /\ child' = child
            /\ process' = None
            /\ thr'[t].pc = "idle"
            /\ thr'[t].result = "None"
            /\ thr'[t].out = <<>>
            /\ thr'[t].timer = 0]_vars

\* stop_process has returned silently although an exited child had been spawned
C6_Witness ==
    \E t \in threads :
        /\ Returned(t, "stop_process")
        /\ thr[t].out = <<>>
        /\ process = None
        /\ \E p \in Pids : child[p].st = "exited"
        /\ \A p \in Pids : child[p].st # "killed"

\* C7: when the 30 units of wait() run out with the child still alive,
\* stop_process kills it and returns normally; the child is then dead and
\* process_is_running() is false.  A stop_process that waits always returns.
C7_TimeoutKillsAndReturns ==
    /\ [][(/\ thr[MainThread].pc = "stop_wait"
            /\ thr'[MainThread].pc # "stop_wait"
            /\ Alive(thr[MainThread].target)) =>
              /\ thr[MainThread].timer = StopTimeoutUnits
              /\ child'[thr[MainThread].target].st = "killed"
              /\ thr'[MainThread].pc = "idle"
              /\ thr'[MainThread].result = "None"
              /\ process' = None
              /\ ~Truthy(ProcessIsRunning')]_vars
    /\ (thr[MainThread].pc = "stop_wait") ~> (thr[MainThread].pc = "idle")

\* the stop went through the whole wait and the kill, and has returned
C7_Witness ==
    /\ Returned(MainThread, "kill_server")
    /\ thr[MainThread].timer = StopTimeoutUnits
    /\ \E p \in Pids : child[p].st = "killed"
    /\ \A p \in Pids : ~Alive(p)

\* the handle refers to a live worker that start_server launched
WorkerAlive == HandleAlive /\ IsServerCmd(child[process].cmd)

\* C8: while the supervised worker is alive the endpoint cannot change: no
\* call leaves (host, port) different from what it was.
C8_EndpointFixedWhileRunning ==
    [][WorkerAlive => (host' = host /\ port' = port)]_vars

\* C9: once load_calculator is over, on whatever path it ended, the
\* connection it opened is closed; a connection is open only inside the call.
C9_ConnectionClosedOnExit ==
    \A t \in threads :
        /\ thr[t].conn = "open" => thr[t].pc \in {"lc_send", "lc_recv"}
        /\ (thr[t].pc = "idle" /\ thr[t].op = "load_calculator") =>
               \/ thr[t].conn = "closed"
               \/ thr[t].conn = "none" /\ thr[t].result = "ConnectionRefusedError"

\* the call ended in an exception while receiving, with the connection closed
C9_Witness ==
    \E t \in threads :
        /\ thr[t].pc = "idle"
        /\ thr[t].op = "load_calculator"
        /\ thr[t].result \in {"EOFError", "UnpicklingError"}
        /\ thr[t].conn = "closed"

\* C10 as stated: the result of load_calculator is the response object r the
\* worker replied with.
C10_ResultIsResponse ==
    \A t \in threads :
        (thr[t].pc = "idle" /\ thr[t].op = "load_calculator" /\ thr[t].resp # "") =>
            thr[t].result = thr[t].sent

\* C10: load_calculator receives exactly the response object the worker sent
\* and prints it; what the call returns is None, never the response.
C10_ResponseReceivedNotReturned ==
    \A t \in threads :
        (thr[t].pc = "idle" /\ thr[t].op = "load_calculator") =>
            /\ thr[t].result = "None" <=> thr[t].resp # ""
            /\ thr[t].resp # "" =>
                  /\ thr[t].resp = thr[t].sent
                  /\ thr[t].out = <<"Server setup response:">>
            /\ thr[t].result \notin Responses

\* the worker answered "failed" and that is what the call received
C10_Witness ==
    \E t \in threads :
        /\ Returned(t, "load_calculator")
        /\ thr[t].sent = "failed"
        /\ thr[t].resp = "failed"

\* the step that enters load_calculator
EntersLoadCalculator(t) ==
    thr[t].pc = "idle" /\ thr'[t] # thr[t] /\ thr'[t].op = "load_calculator"

\* C11: with no listener at the endpoint, load_calculator ends at once by
\* raising the connection error to its caller: it does not block, does not
\* return normally, opens no connection, and has tried to connect once.
C11_NoListenerRaises ==
    /\ [][\A t \in threads :
            (EntersLoadCalculator(t) /\ bound[<<host, port>>] = Free) =>
                /\ thr'[t].pc = "idle"
                /\ thr'[t].result = "ConnectionRefusedError"
                /\ thr'[t].conn = "none"
                /\ thr'[t].sends = 0 /\ thr'[t].recvs = 0]_vars
    /\ [](\A t \in threads : thr[t].op = "load_calculator" => thr[t].attempts = 1)

\* the worker is alive but has opened no listener, and the call was refused
C11_Witness ==
    \E t \in threads :
        /\ thr[t].pc = "idle"
        /\ thr[t].op = "load_calculator"
        /\ thr[t].result = "ConnectionRefusedError"
        /\ thr[t].attempts = 1
        /\ WorkerAlive
        /\ bound[thr[t].addr] = Free

\* the step that is a call of server_port_in_use
ProbeCall(t) ==
    thr[t].pc = "idle" /\ thr'[t] # thr[t] /\ thr'[t].op = "server_port_in_use"

\* C12: server_port_in_use returns True exactly when the bind of its probe
\* socket fails; the probe socket is gone when the call returns, so the call
\* leaves every endpoint as it was: a second probe gives the same answer and
\* a free endpoint is still free.
C12_ProbeLeavesEndpoints ==
    /\ [][\A t \in threads :
            ProbeCall(t) =>
                /\ thr'[t].result = "True" <=> bound[<<host, port>>] # Free
                /\ thr'[t].result = "False" <=> bound[<<host, port>>] = Free
                /\ bound' = bound
                /\ ServerPortInUse' = ServerPortInUse]_vars
    /\ [](\A e \in Endpoints : bound[e] # Probe)

\* the probe found the endpoint free, and free it still is
C12_Witness ==
    \E t \in threads :
        /\ thr[t].pc = "idle"
        /\ thr[t].op = "server_port_in_use"
        /\ thr[t].result = "False"
        /\ bound[<<host, port>>] = Free

\* C13: concurrent start calls on one Process are serialized by the
\* already-running check: whatever the interleaving of check and spawn, at
\* most one launched child is alive and the handle refers to it.
C13_ConcurrentStartsSerialized ==
    /\ Cardinality({p \in Pids : Alive(p)}) <= 1
    /\ \A p \in Pids : Alive(p) => process = p

\* C14: a child is force-killed only after it was sent the graceful signal
\* and the whole 30 units of wait() passed with it still alive; when the
\* child exits within the wait, stop_process returns without killing.
C14_KillOnlyAfterTermAndTimeout ==
    [][/\ \A p \in Pids :
            (child[p].st = "running" /\ child'[p].st = "killed") =>
                /\ child[p].term
                /\ \E t \in threads :
                      /\ thr[t].pc = "stop_wait"
                      /\ thr[t].target = p
                      /\ thr[t].timer = StopTimeoutUnits
       /\ \A t \in threads :
            (thr[t].pc = "stop_wait" /\ thr'[t].pc # "stop_wait" /\ ~Alive(thr[t].target)) =>
                /\ child' = child
                /\ child[thr[t].target].st = "exited"]_vars

\* the child exited part-way through the wait and the stop returned without a kill
C14_Witness ==
    \E t \in threads :
        /\ Returned(t, "stop_process")
        /\ thr[t].out = <<"Stopping process with PID">>
        /\ thr[t].timer > 0 /\ thr[t].timer < StopTimeoutUnits
        /\ child[thr[t].target].st = "exited"
        /\ \A p \in Pids : child[p].st # "killed"

SetEndpointCall(t) ==
    thr[t].pc = "idle" /\ thr'[t] # thr[t] /\ thr'[t].op = "set_id_and_port"

C17_SingleOrderedRoundTrip ==
    \A t \in threads :
        thr[t].op = "load_calculator" =>
            /\ thr[t].attempts = 1
            /\ thr[t].sends <= 1
            /\ thr[t].recvs <= thr[t].sends
            /\ thr[t].pc = "lc_send" => thr[t].sends = 0 /\ thr[t].req = <<>>
            /\ thr[t].pc = "lc_recv" =>
                  /\ thr[t].sends = 1 /\ thr[t].recvs = 0
                  /\ thr[t].req = Dumps([type |-> "setup_calculator",
                                          calculator |-> calculator])
            /\ thr[t].reply # <<>> => thr[t].sends = 1
            /\ Returned(t, "load_calculator") => thr[t].sends = 1 /\ thr[t].recvs = 1

\* a call that completed its round trip: one send, then one receive
C17_Witness ==
    \E t \in threads :
        /\ Returned(t, "load_calculator")
        /\ thr[t].attempts = 1 /\ thr[t].sends = 1 /\ thr[t].recvs = 1
        /\ thr[t].resp \in Responses

\* C18: the probe reserves nothing, and once start_server is past it nothing
\* makes the call report an endpoint conflict, whoever binds the endpoint
\* afterwards; so the call can return normally with its worker launched for
\* an endpoint that a foreign listener holds (the witness).
C18_ProbeThenBindRace ==
    /\ [][\A t \in threads :
            /\ EntersStartServer(t) => bound' = bound
            /\ (thr[t].op = "start_server" /\ thr[t].pc \notin {"idle", "exited"}) =>
                  /\ thr'[t].pc # "exited"
                  /\ thr'[t].result # "SystemExit"
                  /\ exit_code' = exit_code]_vars
    /\ [](\A t \in threads :
            (thr[t].op = "start_server" /\ thr[t].pc \notin {"idle", "exited"}) =>
                \A e \in Endpoints : bound[e] # Probe)

\* start_server returned normally; its worker is alive, was launched for the
\* configured endpoint and holds no endpoint; a foreign listener holds that one
C18_Witness ==
    \E t \in threads :
        /\ Returned(t, "start_server")
        /\ thr[t].out = <<"Process started with PID", "Server started with PID">>
        /\ exit_code = NotExited
        /\ WorkerAlive
        /\ ParseBind(child[process].cmd[4]) = <<host, port>>
        /\ bound[<<host, port>>] = Ext
        /\ \A e \in Endpoints : bound[e] # process

\* C19: with one caller, every live child is the one the handle refers to,
\* and the handle is replaced or cleared only when the child it referred to
\* is no longer alive.
C19_NoOrphanUnderSequentialUse ==
    /\ [](\A p \in Pids : Alive(p) => process = p)
    /\ [][(process' # process /\ process # None) =>
            child'[process].st # "running"]_vars

\* the handle was replaced: an earlier child is dead, a later one is live and referenced
C19_Witness ==
    /\ HandleAlive
    /\ \E p \in Pids : p # process /\ child[p].st \in {"exited", "killed"}
    /\ \A p \in Pids : Alive(p) => process = p

\* C20: start_server probes the endpoint before it asks whether the worker
\* runs: called while its own live worker holds the configured endpoint, it
\* ends the caller with status 101, says nothing of "already running", and
\* leaves the worker, the handle and the worker's listener as they were.
C20_ConflictBeforeAlreadyRunning ==
    [][\A t \in threads :
         (/\ thr[t].pc = "idle"
          /\ thr'[t] # thr[t]
          /\ thr'[t].op = "start_server"
          /\ WorkerAlive
          /\ bound[<<host, port>>] = process) =>
            /\ thr'[t].pc = "exited"
            /\ thr'[t].result = "SystemExit"
            /\ thr'[t].out = <<"Couldn't setup server",
                               "Please check whether all previous server were terminated.">>
            /\ exit_code' = ExitPortInUse
            /\ process' = process
            /\ child' = child
            /\ bound' = bound]_vars

\* the caller was ended with 101 while its own worker is alive on the endpoint
C20_Witness ==
    \E t \in threads :
        /\ thr[t].pc = "exited"
        /\ thr[t].op = "start_server"
        /\ exit_code = ExitPortInUse
        /\ WorkerAlive
        /\ bound[<<host, port>>] = process

====
